---- MODULE Spec2Model ----
(***************************************************************************)
(* Silverline Hood integration: the coordinator's device exchanges         *)
(* (custom_components/silverline_hood/__init__.py), the connection test   *)
(* and the options of the config flow (config_flow.py), and the fan and    *)
(* light entities that call the coordinator (fan.py, light.py).            *)
(*                                                                         *)
(* A process is one asyncio task: the poller (the coordinator's scheduled  *)
(* refresh) or a caller of one public dispatcher method.  Every action is  *)
(* the code that runs between two awaits of that task.                     *)
(***************************************************************************)
EXTENDS Integers, FiniteSets, Sequences, TLC

VARIABLES
    last_state,   \* SilverlineHoodCoordinator._last_state
    data,         \* DataUpdateCoordinator.data: None, the _last_state object itself, or a reply
    proc,         \* per task: the running call, its position and what it has observed
    calls_left,   \* number of calls that may still start (the bound of the model)
    options,      \* the config entry's options, as the options flow stored them
    hass          \* hass.data[DOMAIN] (the entries that hold a coordinator) and the
                  \* domain's registered services

vars == <<last_state, data, proc, calls_left, options, hass>>

(***************************************************************************)
(* Bounds of the model.                                                    *)
(***************************************************************************)
MaxCalls == 3
MaxConcCalls == 2
MaxSeqCalls == 2
MaxFlowCalls == 2
MaxCodecCalls == 1
MaxOptionsCalls == 3
MaxFrameCalls == 1
MaxFanCalls == 1
MaxLightCalls == 1

Poller == "poller"
Callers == {"t1", "t2"}
Procs == {Poller} \cup Callers

(***************************************************************************)
(* Mappings (Python dicts) are functions from field codes to values.       *)
(***************************************************************************)
EmptyMap == <<>>

\* a faulty update: the store is assigned the partial mapping instead of merged with it
AssignInsteadOfMerge(s, p) == p

\* dict.update: a shallow union in which the keys of p overwrite
Merge(s, p) ==
    [k \in (DOMAIN s) \cup (DOMAIN p) |-> IF k \in DOMAIN p THEN p[k] ELSE s[k]]

\* a faulty constructor: the store starts empty
UnseededState == <<>>

\* __init__: the seeded _last_state
SeedState ==
    ("M" :> 1) @@ ("L" :> 1) @@ ("R" :> 45) @@ ("G" :> 255) @@ ("B" :> 104) @@
    ("CW" :> 110) @@ ("BRG" :> 132) @@ ("T" :> 0) @@ ("TM" :> 0) @@ ("TS" :> 0) @@
    ("A" :> 1) @@ ("LM" :> 0) @@ ("CWD" :> 0) @@ ("RGBD" :> 0)

\* the keys send_smart_command keeps in the frame
CoreKeys == {"M", "L", "R", "G", "B", "CW", "BRG", "T", "TM", "TS", "A"}

\* a faulty filter: every key of the new state is sent
KeepEveryKey(s) == s

\* send_smart_command: clean_state
CleanState(s) == [k \in (DOMAIN s) \cap CoreKeys |-> s[k]]

\* a faulty command table: fan_speed_k sets M = k
ShiftedChanges(name) ==
    CASE name = "light_on" -> ("L" :> 2)
      [] name = "light_off" -> ("L" :> 1)
      [] name = "fan_off" -> ("M" :> 1)
      [] name = "fan_speed_1" -> ("M" :> 1)
      [] name = "fan_speed_2" -> ("M" :> 2)
      [] name = "fan_speed_3" -> ("M" :> 3)
      [] name = "fan_speed_4" -> ("M" :> 4)

\* a faulty command table: light_on switches the light to the state it is not in
ToggleChanges(name) ==
    IF name = "light_on" THEN ("L" :> (3 - last_state["L"])) ELSE ("M" :> 1)

\* send_exact_command: command_changes
CommandNames ==
    {"light_on", "light_off", "fan_off", "fan_speed_1", "fan_speed_2",
     "fan_speed_3", "fan_speed_4"}

CommandChanges(name) ==
    CASE name = "light_on" -> ("L" :> 2)
      [] name = "light_off" -> ("L" :> 1)
      [] name = "fan_off" -> ("M" :> 1)
      [] name = "fan_speed_1" -> ("M" :> 2)
      [] name = "fan_speed_2" -> ("M" :> 3)
      [] name = "fan_speed_3" -> ("M" :> 4)
      [] name = "fan_speed_4" -> ("M" :> 5)

(***************************************************************************)
(* A frame: the text handed to writer.write.  json tells whether the text  *)
(* is a JSON object (then body is that object), cr whether it ends in one  *)
(* carriage return.                                                        *)
(***************************************************************************)
Frame(isJson, body, cr) == [json |-> isJson, body |-> body, cr |-> cr]
NoFrame == Frame(FALSE, EmptyMap, FALSE)

\* json.dumps(mapping) + '\r'
JsonFrame(m) == Frame(TRUE, m, TRUE)

\* _query_current_status: status_cmd
StatusCmd == JsonFrame("A" :> 4)

(***************************************************************************)
(* Inputs: what callers ask for and what the device may do.                *)
(***************************************************************************)
\* the delta of the scenario "light on with colour"
LightColour == ("L" :> 2) @@ ("R" :> 10) @@ ("G" :> 20) @@ ("B" :> 30)

Deltas == {("M" :> 2), ("M" :> 3) @@ ("L" :> 2), LightColour}
Replies == {EmptyMap, ("M" :> 1), ("W" :> 1)}
RawFrames == {JsonFrame("M" :> 2), Frame(FALSE, EmptyMap, TRUE)}
\* deltas with keys outside the core codes, and the empty delta
WideDeltas ==
    Deltas \cup {EmptyMap, ("LM" :> 1) @@ ("M" :> 4), ("W" :> 2) @@ ("A" :> 4)}
ExactNames == {"light_on", "status_query", "bogus"}
AllNames == CommandNames \cup {"status_query", "bogus"}

OpenOutcomes == {"ok", "fail"}
HandshakeOutcomes == {"token", "other", "nonutf8", "timeout"}
DrainOutcomes == {"ok", "fail"}
\* reader.read(2048): the wait_for timeout, b"" (peer closed), bytes that are not UTF-8,
\* text json.loads rejects, JSON that is no object (a number: dict.update raises), an object
ResponseKinds == {"timeout", "empty", "nonutf8", "badjson", "nonobj", "obj"}
CloseOutcomes == {"ok", "fail"}

Response(kind, obj) == [kind |-> kind, obj |-> obj]
NoResponse == Response("none", EmptyMap)
Responses ==
    {Response(k, EmptyMap) : k \in ResponseKinds \ {"obj"}}
        \cup {Response("obj", r) : r \in Replies}

(***************************************************************************)
(* coordinator.data and current_state                                      *)
(***************************************************************************)
DataNone == [tag |-> "none", val |-> EmptyMap]
DataAlias == [tag |-> "alias", val |-> EmptyMap]
DataOwn(m) == [tag |-> "own", val |-> m]

\* the mapping self.data refers to, for a given _last_state
DataValue(d, ls) == IF d.tag = "alias" THEN ls ELSE d.val

\* self.data or self._last_state (None and an empty mapping are falsy)
CurrentStateOf(d, ls) ==
    IF d.tag = "own" /\ DOMAIN d.val # {} THEN d.val ELSE ls

\* current_state
current_state == CurrentStateOf(data, last_state)

(***************************************************************************)
(* Task records                                                            *)
(***************************************************************************)
(* op, name, args, changes: the call, the entity method and its arguments,   *)
(* and the mapping handed to the coordinator; stage: how far a method of the *)
(* light entity has come, and what a step of the config flow has returned;   *)
(* pc: the await the task is                                                 *)
(* at; frame: command_str; sent, qsent: the frames written so far by the    *)
(* call's own exchange and by its status query; conn: the exchange's        *)
(* connection is open; leaked: the call ended an exchange without closing   *)
(* its connection; cresp, resp: the response read by the command exchange   *)
(* and by the status query; fail, qfail: the step at which the command      *)
(* exchange, the status query, ended by an exception; nOpen, nWrite:        *)
(* connections opened and frames written by the call; during: the tasks     *)
(* that were inside a call when this call started; latest: no call has      *)
(* started since this one; result: what the call returned; prev: where one  *)
(* caller runs its calls in a row, what its previous call observed and the   *)
(* snapshot that call left.                                                  *)
NoPrev ==
    [op |-> "none", name |-> "", cresp |-> NoResponse, resp |-> NoResponse,
     fail |-> "none", qfail |-> "none", nOpen |-> 0, nWrite |-> 0, result |-> "none",
     snap |-> EmptyMap]

IdleProc ==
    [op |-> "none", pc |-> "idle", name |-> "", args |-> EmptyMap, changes |-> EmptyMap,
     stage |-> "none",
     frame |-> NoFrame, sent |-> NoFrame, qsent |-> NoFrame,
     conn |-> FALSE, leaked |-> FALSE, cresp |-> NoResponse, resp |-> NoResponse,
     fail |-> "none", qfail |-> "none", nOpen |-> 0, nWrite |-> 0,
     during |-> {}, latest |-> FALSE, result |-> "none", prev |-> NoPrev]

\* a task that takes no part in the specification at hand
AbsentProc == [IdleProc EXCEPT !.pc = "absent"]

InCall(rec) == rec.pc \notin {"idle", "done", "absent"}

\* one caller alone uses the coordinator, one call after the other
InARow == \A q \in Procs \ {"t1"} : proc[q].pc = "absent"

\* what the finished call rec observed, and the snapshot snap it left
Observed(rec, snap) ==
    [op |-> rec.op, name |-> rec.name, cresp |-> rec.cresp, resp |-> rec.resp,
     fail |-> rec.fail, qfail |-> rec.qfail, nOpen |-> rec.nOpen, nWrite |-> rec.nWrite,
     result |-> rec.result, snap |-> snap]

\* the record of a call that starts now
NewCall(p, op) ==
    [IdleProc EXCEPT !.op = op, !.latest = TRUE,
                     !.during = {q \in Procs : InCall(proc[q])},
                     !.prev = IF InARow THEN Observed(proc[p], current_state) ELSE NoPrev]

CanStart(p) == proc[p].pc \in {"idle", "done"} /\ calls_left > 0

\* the config entry has no options until the options flow has stored some
NoOptions == EmptyMap

\* the services _register_services registers, which are those async_unload_entry removes
Services ==
    {"test_exact_command", "send_raw_bytes", "query_status", "test_light_on",
     "test_light_off", "test_fan_on", "test_fan_off", "test_minimal", "test_full"}

\* Home Assistant with no entry of the domain set up
NoHass == [data |-> {}, services |-> {}]

\* Home Assistant around the one coordinator whose data is d: async_setup_entry stores
\* the coordinator after the first refresh and then registers the services
HassOf(d) == IF d.tag = "none" THEN NoHass ELSE [data |-> {"e1"}, services |-> Services]

\* the coordinator as __init__ leaves it, with the tasks ts that will use it
InitWith(ts) ==
    /\ last_state = SeedState
    /\ data = DataNone
    /\ proc = [p \in Procs |-> IF p \in ts THEN IdleProc ELSE AbsentProc]
    /\ calls_left = MaxCalls
    /\ options = NoOptions
    /\ hass = HassOf(data)

Init == InitWith({Poller, "t1"})

\* what the method of the call rec ends with when the coordinator method it awaited
\* has ended with result.  fan._send_motor_command: after True it updates
\* self._coordinator._state, an attribute the coordinator does not have; after False it
\* logs and returns.  light.async_turn_on / async_turn_off: after False they log and return
AfterSend(rec, result) ==
    IF rec.op = "fan" /\ result = "True" THEN "AttributeError"
    ELSE IF rec.op \in {"fan", "light"} /\ result = "False" THEN "None"
    ELSE result

\* the call is over: its locals are gone, what it did and returned is kept
Finish(rec, result) ==
    [rec EXCEPT !.pc = "done", !.result = AfterSend(rec, result), !.frame = NoFrame,
                !.sent = NoFrame,
                !.qsent = NoFrame,
                !.resp = IF InARow THEN rec.resp ELSE NoResponse,
                !.cresp = IF InARow THEN rec.cresp ELSE Response(rec.cresp.kind, EmptyMap)]

\* the coordinator and the flows other than the options flow never write the options,
\* and none of them touches hass.data or the services
Set(p, rec) ==
    /\ proc' = [proc EXCEPT ![p] = rec]
    /\ UNCHANGED <<options, hass>>

\* task p starts the call rec: it is now the latest call
Begin(p, rec) ==
    /\ proc' = [q \in Procs |-> IF q = p THEN rec ELSE [proc[q] EXCEPT !.latest = FALSE]]
    /\ calls_left' = calls_left - 1
    /\ UNCHANGED <<options, hass>>

\* the exchange ends by an exception while its connection is open: nothing closes it
Leak(rec) == [rec EXCEPT !.conn = FALSE, !.leaked = TRUE]

(***************************************************************************)
(* _async_update_data / _query_current_status, run by the poller's tick or *)
(* by async_request_refresh.  The base class stores the returned object in *)
(* self.data when _async_update_data returns.                              *)
(***************************************************************************)
\* the value the caller of async_request_refresh / the tick ends with
QueryDone(rec) == Finish(rec, IF rec.op = "poll" THEN "ok" ELSE "True")

\* a faulty query: it goes to the handshake read without opening a connection
QueryWithoutOpen(rec) == [rec EXCEPT !.pc = "q_hs"]

\* entering _query_current_status: runs up to the await of open_connection
EnterQuery(rec) == [rec EXCEPT !.pc = "q_open"]

\* send_smart_command up to the await of open_connection, on the snapshot cur:
\* new_state, clean_state, command_str
SmartPrepareOn(rec, changes, cur) ==
    [rec EXCEPT !.pc = "c_open", !.changes = changes,
                !.frame = JsonFrame(CleanState(Merge(cur, changes)))]

\* dict.get(key, default)
Get(m, k, default) == IF k \in DOMAIN m THEN m[k] ELSE default

\* SilverlineHoodLight._get_current_state: base_command, from self.coordinator.data or {}
LightBaseCommand(cur) ==
    ("A" :> 4) @@ ("M" :> Get(cur, "M", 1)) @@ ("L" :> Get(cur, "L", 2)) @@
    ("R" :> Get(cur, "R", 0)) @@ ("G" :> Get(cur, "G", 0)) @@ ("B" :> Get(cur, "B", 0)) @@
    ("CW" :> Get(cur, "CW", 110)) @@ ("BRG" :> Get(cur, "BRG", 165)) @@
    ("TM" :> Get(cur, "TM", 0)) @@ ("TS" :> Get(cur, "TS", 0)) @@
    ("LM" :> Get(cur, "LM", 0)) @@ ("CWD" :> Get(cur, "CWD", 0)) @@
    ("RGBD" :> Get(cur, "RGBD", 0)) @@ ("WAPS" :> Get(cur, "WAPS", "SLHood+")) @@
    ("WAPP" :> Get(cur, "WAPP", "silverline")) @@ ("U" :> Get(cur, "U", 1)) @@
    ("T" :> Get(cur, "T", 0)) @@ ("W" :> Get(cur, "W", "STA")) @@
    ("WS" :> Get(cur, "WS", "Reinhardtstrasse"))

\* SilverlineHoodLight._convert_brightness_to_device
BrightnessToDevice(ha_brightness) ==
    IF ha_brightness <= 0 THEN 161 ELSE 161 + ((ha_brightness * (170 - 161)) \div 255)

\* async_turn_on / async_turn_off: the command built on the base command; args holds
\* brightness and the rgbw colour (r, g, b, w) where the call gives them
LightCommand(method, args, cur) ==
    LET base == LightBaseCommand(cur)
        dimmed == IF "brightness" \in DOMAIN args
                  THEN Merge(base, "BRG" :> BrightnessToDevice(args["brightness"]))
                  ELSE base IN
    IF method = "turn_off" THEN Merge(base, "L" :> 1)
    ELSE IF "r" \in DOMAIN args
         THEN IF args["r"] > 0 \/ args["g"] > 0 \/ args["b"] > 0
              THEN Merge(dimmed, ("L" :> 3) @@ ("R" :> args["r"]) @@ ("G" :> args["g"]) @@
                                 ("B" :> args["b"]) @@ ("CW" :> 0))
              ELSE Merge(dimmed, ("L" :> 2) @@ ("CW" :> args["w"]) @@ ("R" :> 0) @@
                                 ("G" :> 0) @@ ("B" :> 0))
         ELSE IF dimmed["L"] = 1 THEN Merge(dimmed, "L" :> 2) ELSE dimmed

\* what the task of rec goes on with when a refresh it awaited is over, the published data
\* being d and the store ls.  A method of the light entity builds its command after its
\* first refresh and calls send_smart_command; after the refresh inside send_smart_command
\* it requests one more refresh (run now, or left to a later tick), then it returns.
\* Every other caller is done
AfterQuery(rec, d, ls) ==
    IF rec.op # "light" THEN {QueryDone(rec)}
    ELSE IF rec.stage = "state"
         THEN {SmartPrepareOn([rec EXCEPT !.stage = "command"],
                              LightCommand(rec.name, rec.args,
                                           IF d.tag = "alias" THEN ls ELSE d.val),
                              CurrentStateOf(d, ls))}
         ELSE IF rec.stage = "command"
              THEN {EnterQuery([rec EXCEPT !.stage = "update"]),
                    Finish([rec EXCEPT !.stage = "update"], "None")}
              ELSE {Finish(rec, "None")}

\* _async_update_data returns the object d (published as self.data); the store becomes ls
Publish(p, rec, d, ls) ==
    /\ last_state' = ls
    /\ data' = d
    /\ \E next \in AfterQuery(rec, d, ls) : Set(p, next)

\* _query_current_status raises UpdateFailed; _async_update_data returns self._last_state
QueryFailed(p, rec, at) ==
    Publish(p, [rec EXCEPT !.qfail = at], DataAlias, last_state)

\* the coordinator's scheduled refresh fires
StartPoll(p) ==
    /\ p = Poller
    /\ CanStart(p)
    /\ Begin(p, EnterQuery(NewCall(p, "poll")))
    /\ UNCHANGED <<last_state, data>>

\* asyncio.open_connection under wait_for(timeout=10)
QOpen(p) ==
    /\ proc[p].pc = "q_open"
    /\ \E o \in OpenOutcomes :
        IF o = "ok"
        THEN /\ Set(p, [proc[p] EXCEPT !.pc = "q_hs", !.conn = TRUE, !.nOpen = @ + 1])
             /\ UNCHANGED <<last_state, data>>
        ELSE QueryFailed(p, proc[p], "open")
    /\ UNCHANGED calls_left

\* reader.read(100) under wait_for(timeout=3), initial.decode(), then writer.write(status_cmd)
QHandshake(p) ==
    /\ proc[p].pc = "q_hs"
    /\ \E h \in HandshakeOutcomes :
        IF h = "nonutf8"
        THEN QueryFailed(p, Leak(proc[p]), "handshake")
        ELSE /\ Set(p, [proc[p] EXCEPT !.pc = "q_drain", !.qsent = StatusCmd,
                                       !.nWrite = @ + 1])
             /\ UNCHANGED <<last_state, data>>
    /\ UNCHANGED calls_left

\* await writer.drain()
QDrain(p) ==
    /\ proc[p].pc = "q_drain"
    /\ \E o \in DrainOutcomes :
        IF o = "ok"
        THEN /\ Set(p, [proc[p] EXCEPT !.pc = "q_read"])
             /\ UNCHANGED <<last_state, data>>
        ELSE QueryFailed(p, Leak(proc[p]), "write")
    /\ UNCHANGED calls_left

\* reader.read(2048) under wait_for(timeout=5), then writer.close()
QRead(p) ==
    /\ proc[p].pc = "q_read"
    /\ \E r \in Responses :
        IF r.kind = "timeout"
        THEN QueryFailed(p, Leak([proc[p] EXCEPT !.resp = r]), "read")
        ELSE /\ Set(p, [proc[p] EXCEPT !.pc = "q_wclose", !.resp = r, !.conn = FALSE])
             /\ UNCHANGED <<last_state, data>>
    /\ UNCHANGED calls_left

\* the rest of _query_current_status once wait_closed has returned:
\* decode, json.loads, self._last_state.update(status_data), return
QDecode(p, rec) ==
    LET r == rec.resp IN
    CASE r.kind = "empty" -> Publish(p, rec, DataAlias, last_state)
      [] r.kind = "badjson" -> Publish(p, rec, DataAlias, last_state)
      [] r.kind = "obj" -> Publish(p, rec, DataOwn(r.obj), Merge(last_state, r.obj))
      [] OTHER -> QueryFailed(p, rec, "decode")

\* await writer.wait_closed(), then the decoding of the response
QWaitClosed(p) ==
    /\ proc[p].pc = "q_wclose"
    /\ \E o \in CloseOutcomes :
        IF o = "ok"
        THEN QDecode(p, proc[p])
        ELSE QueryFailed(p, proc[p], "close")
    /\ UNCHANGED calls_left

(***************************************************************************)
(* async_request_refresh (the base class's debounced refresh): it either   *)
(* runs _async_update_data now, or leaves the refresh to a later tick.     *)
(***************************************************************************)
RequestRefresh(rec) == {EnterQuery(rec)} \cup AfterQuery(rec, data, last_state)

(***************************************************************************)
(* send_smart_command / send_minimal_command / send_raw_command /          *)
(* send_exact_command.  Services and entities exist once the first refresh *)
(* of async_setup_entry has set self.data.                                 *)
(***************************************************************************)
CanCall(p) == p \in Callers /\ CanStart(p) /\ data.tag # "none"

\* the call returns False from its except clause
ReturnFalse(rec, at) == Finish([rec EXCEPT !.fail = at], "False")

\* send_smart_command up to the await of open_connection:
\* current_state = self.data or self._last_state, new_state, clean_state, command_str
SmartPrepare(rec, changes) == SmartPrepareOn(rec, changes, current_state)

StartSmart(p) ==
    /\ CanCall(p)
    /\ \E ch \in Deltas : Begin(p, SmartPrepare(NewCall(p, "smart"), ch))
    /\ UNCHANGED <<last_state, data>>

\* send_smart_command with any partial mapping
StartSmartAny(p) ==
    /\ CanCall(p)
    /\ \E ch \in WideDeltas : Begin(p, SmartPrepare(NewCall(p, "smart"), ch))
    /\ UNCHANGED <<last_state, data>>

\* send_minimal_command: command_str = json.dumps(changes) + '\r'
StartMinimal(p) ==
    /\ CanCall(p)
    /\ \E ch \in Deltas :
        Begin(p, [NewCall(p, "minimal") EXCEPT !.pc = "c_open", !.changes = ch,
                                               !.frame = JsonFrame(ch)])
    /\ UNCHANGED <<last_state, data>>

\* send_raw_command: the caller's string is written as it is
StartRaw(p) ==
    /\ CanCall(p)
    /\ \E f \in RawFrames :
        Begin(p, [NewCall(p, "raw") EXCEPT !.pc = "c_open", !.frame = f])
    /\ UNCHANGED <<last_state, data>>

\* send_exact_command(n) up to its first await, or to its return
ExactCall(p, n) ==
    LET rec == [NewCall(p, "exact") EXCEPT !.name = n] IN
    IF n = "status_query"
    THEN \E next \in RequestRefresh(rec) : Begin(p, next)
    ELSE IF n \in CommandNames
         THEN Begin(p, SmartPrepare(rec, CommandChanges(n)))
         ELSE Begin(p, ReturnFalse(rec, "name"))

\* send_exact_command
StartExact(p) ==
    /\ CanCall(p)
    /\ \E n \in ExactNames : ExactCall(p, n)
    /\ UNCHANGED <<last_state, data>>

\* send_exact_command with any name of the service schema, or an unknown one
StartAnyExact(p) ==
    /\ CanCall(p)
    /\ \E n \in AllNames : ExactCall(p, n)
    /\ UNCHANGED <<last_state, data>>

\* asyncio.open_connection under wait_for(timeout=10)
COpen(p) ==
    /\ proc[p].pc = "c_open"
    /\ \E o \in OpenOutcomes :
        IF o = "ok"
        THEN Set(p, [proc[p] EXCEPT !.pc = "c_hs", !.conn = TRUE, !.nOpen = @ + 1])
        ELSE Set(p, ReturnFalse(proc[p], "open"))
    /\ UNCHANGED <<last_state, data, calls_left>>

\* reader.read(100) under wait_for(timeout=2), initial.decode() for the log,
\* then writer.write(command_str.encode())
CHandshake(p) ==
    /\ proc[p].pc = "c_hs"
    /\ \E h \in HandshakeOutcomes :
        IF h = "nonutf8"
        THEN Set(p, ReturnFalse(Leak(proc[p]), "handshake"))
        ELSE Set(p, [proc[p] EXCEPT !.pc = "c_drain", !.sent = proc[p].frame,
                                    !.nWrite = @ + 1])
    /\ UNCHANGED <<last_state, data, calls_left>>

\* await writer.drain()
CDrain(p) ==
    /\ proc[p].pc = "c_drain"
    /\ \E o \in DrainOutcomes :
        IF o = "ok"
        THEN Set(p, [proc[p] EXCEPT !.pc = "c_read"])
        ELSE Set(p, ReturnFalse(Leak(proc[p]), "write"))
    /\ UNCHANGED <<last_state, data, calls_left>>

\* a faulty merge: the state the call started from is written back with the changes
StaleMerge(r, changes) ==
    [act |-> "merge", with |-> Merge(SeedState, changes)]

\* what send_smart_command merges into _last_state for a response: the decoded
\* reply, the caller's changes, or nothing ("raise": the exception leaves the try)
SmartMerge(r, changes) ==
    CASE r.kind = "timeout" -> [act |-> "merge", with |-> changes]
      [] r.kind = "empty" -> [act |-> "keep", with |-> EmptyMap]
      [] r.kind = "badjson" -> [act |-> "merge", with |-> changes]
      [] r.kind = "obj" -> [act |-> "merge", with |-> r.obj]
      [] OTHER -> [act |-> "raise", with |-> EmptyMap]

\* send_minimal_command / send_raw_command only decode the response for the log
PlainMerge(r, changes) ==
    IF r.kind = "nonutf8"
    THEN [act |-> "raise", with |-> EmptyMap]
    ELSE [act |-> "keep", with |-> EmptyMap]

IsSmart(rec) == rec.op \in {"smart", "exact", "light"}

\* reader.read(2048) under wait_for(timeout=3), the handling of the response,
\* then writer.close()
CRead(p) ==
    /\ proc[p].pc = "c_read"
    /\ \E r \in Responses :
        LET m == IF IsSmart(proc[p]) THEN SmartMerge(r, proc[p].changes)
                 ELSE PlainMerge(r, proc[p].changes)
            ls == IF m.act = "merge" THEN Merge(last_state, m.with) ELSE last_state
            rec == [proc[p] EXCEPT !.cresp = r] IN
        /\ last_state' = ls
        /\ IF m.act = "raise"
           THEN Set(p, ReturnFalse(Leak(rec), "decode"))
           ELSE Set(p, [rec EXCEPT !.pc = "c_wclose", !.conn = FALSE])
    /\ UNCHANGED <<data, calls_left>>

\* await writer.wait_closed()
CWaitClosed(p) ==
    /\ proc[p].pc = "c_wclose"
    /\ \E o \in CloseOutcomes :
        IF o = "ok"
        THEN Set(p, [proc[p] EXCEPT !.pc = "c_sleep"])
        ELSE Set(p, ReturnFalse(proc[p], "close"))
    /\ UNCHANGED <<last_state, data, calls_left>>

\* await asyncio.sleep(1) is over: await self.async_request_refresh(), return True
CSleep(p) ==
    /\ proc[p].pc = "c_sleep"
    /\ \E next \in RequestRefresh(proc[p]) : Set(p, next)
    /\ UNCHANGED <<last_state, data, calls_left>>

(***************************************************************************)
(* The task is cancelled at the await it is at: CancelledError is not an   *)
(* Exception, so no except clause of the coordinator catches it and a      *)
(* connection that is open stays open.                                     *)
(***************************************************************************)
Cancel(p) ==
    /\ InCall(proc[p])
    /\ LET rec == IF proc[p].conn THEN Leak(proc[p]) ELSE proc[p] IN
       Set(p, Finish(IF proc[p].pc \in {"q_open", "q_hs", "q_drain", "q_read", "q_wclose"}
                     THEN [rec EXCEPT !.qfail = "cancel"]
                     ELSE [rec EXCEPT !.fail = "cancel"], "cancelled"))
    /\ UNCHANGED <<last_state, data, calls_left>>

Next ==
    \E p \in Procs :
        \/ StartPoll(p) \/ QOpen(p) \/ QHandshake(p) \/ QDrain(p) \/ QRead(p) \/ QWaitClosed(p)
        \/ StartSmart(p) \/ StartMinimal(p) \/ StartRaw(p) \/ StartExact(p)
        \/ COpen(p) \/ CHandshake(p) \/ CDrain(p) \/ CRead(p) \/ CWaitClosed(p) \/ CSleep(p)
        \/ Cancel(p)

Spec == Init /\ [][Next]_vars

(***************************************************************************)
(* Two callers of send_smart_command, from the states the first refresh of *)
(* async_setup_entry leaves: it failed or got no reply (data is the        *)
(* _last_state object), or it got a reply r (merged, and published alone). *)
(***************************************************************************)
InitConc ==
    /\ \E d \in {DataAlias} \cup {DataOwn(r) : r \in Replies} :
        /\ data = d
        /\ last_state = Merge(SeedState, d.val)
    /\ proc = [p \in Procs |-> IF p \in Callers THEN IdleProc ELSE AbsentProc]
    /\ calls_left = MaxConcCalls
    /\ options = NoOptions
    /\ hass = HassOf(data)

NextConc ==
    \E p \in Procs :
        \/ StartSmart(p)
        \/ COpen(p) \/ CHandshake(p) \/ CDrain(p) \/ CRead(p) \/ CWaitClosed(p) \/ CSleep(p)
        \/ QOpen(p) \/ QHandshake(p) \/ QDrain(p) \/ QRead(p) \/ QWaitClosed(p)

SpecConc == InitConc /\ [][NextConc]_vars

(***************************************************************************)
(* One caller of send_exact_command, its calls one after the other, from   *)
(* the states the first refresh of async_setup_entry leaves.               *)
(***************************************************************************)
InitSeq ==
    /\ \E d \in {DataAlias} \cup {DataOwn(r) : r \in Replies} :
        /\ data = d
        /\ last_state = Merge(SeedState, d.val)
    /\ proc = [p \in Procs |-> IF p = "t1" THEN IdleProc ELSE AbsentProc]
    /\ calls_left = MaxSeqCalls
    /\ options = NoOptions
    /\ hass = HassOf(data)

NextSeq ==
    \E p \in Procs :
        \/ StartAnyExact(p)
        \/ COpen(p) \/ CHandshake(p) \/ CDrain(p) \/ CRead(p) \/ CWaitClosed(p) \/ CSleep(p)
        \/ QOpen(p) \/ QHandshake(p) \/ QDrain(p) \/ QRead(p) \/ QWaitClosed(p)

SpecSeq == InitSeq /\ [][NextSeq]_vars

(***************************************************************************)
(* One caller of send_smart_command with any partial mapping, from the     *)
(* states the first refresh of async_setup_entry leaves.                   *)
(***************************************************************************)
InitFrame ==
    /\ \E d \in {DataAlias} \cup {DataOwn(r) : r \in Replies} :
        /\ data = d
        /\ last_state = Merge(SeedState, d.val)
    /\ proc = [p \in Procs |-> IF p = "t1" THEN IdleProc ELSE AbsentProc]
    /\ calls_left = MaxFrameCalls
    /\ options = NoOptions
    /\ hass = HassOf(data)

NextFrame ==
    \E p \in Procs :
        \/ StartSmartAny(p)
        \/ COpen(p) \/ CHandshake(p) \/ CDrain(p) \/ CRead(p) \/ CWaitClosed(p) \/ CSleep(p)
        \/ QOpen(p) \/ QHandshake(p) \/ QDrain(p) \/ QRead(p) \/ QWaitClosed(p)

SpecFrame == InitFrame /\ [][NextFrame]_vars

(***************************************************************************)
(* config_flow.validate_input: the connection test of the config flow.  It *)
(* runs before the entry (and its coordinator) exists; the user may submit *)
(* the form again.  ConfigFlow.async_step_user awaits it and returns the   *)
(* step's result: the form, the form with an error, an abort or the entry. *)
(***************************************************************************)
\* json.dumps({"A": 4}) written with b'\n' appended: a JSON object, no carriage return
TestCommand == Frame(TRUE, "A" :> 4, FALSE)

\* validate_input raises CannotConnect
CannotConnect(rec, at) == Finish([rec EXCEPT !.fail = at], "CannotConnect")

\* async_step_user once validate_input has ended as rec tells: CannotConnect shows the
\* form again with the error cannot_connect; after a return the unique id (the host) is
\* set, the flow aborts if an entry has it already (configured) and creates the entry
\* otherwise
AsyncStepUser(rec, configured) ==
    [rec EXCEPT !.stage = IF rec.result = "CannotConnect" THEN "cannot_connect"
                          ELSE IF configured THEN "already_configured"
                          ELSE "create_entry"]

\* validate_input has ended and async_step_user returns
EndValidate(p, rec) ==
    \E configured \in BOOLEAN : Set(p, AsyncStepUser(rec, configured))

\* async_step_user without user input: the form is shown, nothing is validated
ShowForm(p) ==
    /\ p \in Callers /\ CanStart(p) /\ data.tag = "none"
    /\ Begin(p, [NewCall(p, "flow") EXCEPT !.pc = "done", !.stage = "form"])
    /\ UNCHANGED <<last_state, data>>

\* the user submits the form: validate_input runs up to the await of open_connection
StartValidate(p) ==
    /\ p \in Callers /\ CanStart(p) /\ data.tag = "none"
    /\ Begin(p, [NewCall(p, "flow") EXCEPT !.pc = "f_open", !.frame = TestCommand])
    /\ UNCHANGED <<last_state, data>>

\* asyncio.open_connection under wait_for(timeout=5), then writer.write(test_command)
FOpen(p) ==
    /\ proc[p].pc = "f_open"
    /\ \E o \in OpenOutcomes :
        IF o = "ok"
        THEN Set(p, [proc[p] EXCEPT !.pc = "f_drain", !.conn = TRUE, !.nOpen = @ + 1,
                                    !.sent = proc[p].frame, !.nWrite = @ + 1])
        ELSE EndValidate(p, CannotConnect(proc[p], "open"))
    /\ UNCHANGED <<last_state, data, calls_left>>

\* await writer.drain()
FDrain(p) ==
    /\ proc[p].pc = "f_drain"
    /\ \E o \in DrainOutcomes :
        IF o = "ok"
        THEN Set(p, [proc[p] EXCEPT !.pc = "f_read"])
        ELSE EndValidate(p, CannotConnect(Leak(proc[p]), "write"))
    /\ UNCHANGED <<last_state, data, calls_left>>

\* reader.readline() under wait_for(timeout=5), then writer.close()
FRead(p) ==
    /\ proc[p].pc = "f_read"
    /\ \E r \in Responses :
        IF r.kind = "timeout"
        THEN EndValidate(p, CannotConnect(Leak([proc[p] EXCEPT !.cresp = r]), "read"))
        ELSE Set(p, [proc[p] EXCEPT !.pc = "f_wclose", !.cresp = r, !.conn = FALSE])
    /\ UNCHANGED <<last_state, data, calls_left>>

\* await writer.wait_closed(), then json.loads(response.decode().strip()) if there is
\* a response: only bytes that are not UTF-8 make the test fail
FWaitClosed(p) ==
    /\ proc[p].pc = "f_wclose"
    /\ \E o \in CloseOutcomes :
        IF o = "fail"
        THEN EndValidate(p, CannotConnect(proc[p], "close"))
        ELSE IF proc[p].cresp.kind = "nonutf8"
             THEN EndValidate(p, CannotConnect(proc[p], "decode"))
             ELSE EndValidate(p, Finish(proc[p], "title"))
    /\ UNCHANGED <<last_state, data, calls_left>>

InitFlow ==
    /\ last_state = SeedState
    /\ data = DataNone
    /\ proc = [p \in Procs |-> IF p = "t1" THEN IdleProc ELSE AbsentProc]
    /\ calls_left = MaxFlowCalls
    /\ options = NoOptions
    /\ hass = HassOf(data)

NextFlow ==
    \E p \in Procs :
        \/ ShowForm(p)
        \/ StartValidate(p) \/ FOpen(p) \/ FDrain(p) \/ FRead(p) \/ FWaitClosed(p)

SpecFlow == InitFlow /\ [][NextFlow]_vars

(***************************************************************************)
(* The wire codec as send_smart_command uses it: the frame it encodes from *)
(* a full state, and the mapping it decodes from a response.  The inputs   *)
(* are device states; the device echoes the frame.                         *)
(***************************************************************************)
\* send_smart_command: clean_state, then command_str = json.dumps(clean_state) + '\r'
WireEncode(s) == JsonFrame(CleanState(s))

\* send_smart_command: response.decode().strip(), then json.loads: the carriage return
\* is stripped, a text that is no JSON object gives no mapping
WireDecode(f) == IF f.json THEN f.body ELSE EmptyMap

\* well-formed device states: the seeded fields with motor, light and extension values
CodecStates ==
    {Merge(SeedState, ("M" :> m) @@ ("L" :> l) @@ ("LM" :> x) @@ ("CWD" :> y) @@ ("RGBD" :> z)) :
        m \in {1, 5}, l \in {1, 2, 3}, x \in {0, 1}, y \in {0, 1}, z \in {0, 1}}

\* the state held by the store is encoded
StartEncode(p) ==
    /\ p \in Callers /\ CanStart(p)
    /\ Begin(p, [NewCall(p, "codec") EXCEPT !.pc = "x_decode",
                                            !.frame = WireEncode(last_state)])
    /\ UNCHANGED <<last_state, data>>

\* the echoed frame is decoded
CodecDecode(p) ==
    /\ proc[p].pc = "x_decode"
    /\ Set(p, Finish([proc[p] EXCEPT !.cresp = Response("obj", WireDecode(proc[p].frame))],
                     "decoded"))
    /\ UNCHANGED <<last_state, data, calls_left>>

InitCodec ==
    /\ last_state \in CodecStates \cup {CleanState(s) : s \in CodecStates}
    /\ data = DataAlias
    /\ proc = [p \in Procs |-> IF p = "t1" THEN IdleProc ELSE AbsentProc]
    /\ calls_left = MaxCodecCalls
    /\ options = NoOptions
    /\ hass = HassOf(data)

NextCodec == \E p \in Procs : StartEncode(p) \/ CodecDecode(p)

SpecCodec == InitCodec /\ [][NextCodec]_vars

(***************************************************************************)
(* The poller's period and the options flow (OptionsFlowHandler).  The     *)
(* options hold the form's update_interval; host and port are left out.    *)
(***************************************************************************)
\* const.py
DEFAULT_UPDATE_INTERVAL == 10
MIN_UPDATE_INTERVAL == 5
MAX_UPDATE_INTERVAL == 300

\* __init__: update_interval=timedelta(seconds=10), the period of the poller's ticks;
\* the constructor is given the host and the port only, and nothing sets the period again
update_interval == 10

\* what the user may type into the form's update_interval field
IntervalInputs == {4, 5, 30, 300, 301}

\* the form's schema: vol.Coerce(int), vol.Range(min=MIN_UPDATE_INTERVAL, max=MAX_UPDATE_INTERVAL)
ValidInterval(v) == v >= MIN_UPDATE_INTERVAL /\ v <= MAX_UPDATE_INTERVAL

\* entry.options.get(CONF_UPDATE_INTERVAL, DEFAULT_UPDATE_INTERVAL)
OptionInterval(opts) ==
    IF "update_interval" \in DOMAIN opts THEN opts["update_interval"]
    ELSE DEFAULT_UPDATE_INTERVAL

\* the options flow ends a step: nothing of the coordinator changes
EndStep(p, rec, result) ==
    /\ proc' = [q \in Procs |-> IF q = p THEN Finish(rec, result)
                                 ELSE [proc[q] EXCEPT !.latest = FALSE]]
    /\ calls_left' = calls_left - 1
    /\ UNCHANGED <<last_state, data, hass>>

\* async_step_init(None): the user opens the options.  With the coordinator registered
\* (setup has made its first refresh) the handler calls update_interval_seconds(), which
\* the coordinator does not have; otherwise it shows the form with the stored interval
OptionsInit(p) ==
    /\ p \in Callers /\ CanStart(p)
    /\ LET rec == [NewCall(p, "options") EXCEPT !.name = "init"] IN
       IF data.tag # "none"
       THEN EndStep(p, [rec EXCEPT !.fail = "form"], "AttributeError")
       ELSE EndStep(p, [rec EXCEPT !.changes = ("update_interval" :> OptionInterval(options))],
                    "form")
    /\ UNCHANGED options

\* async_step_init(user_input): the user submits the form that was shown.  An input the
\* schema rejects shows the form again; a valid one is stored as the entry's options
OptionsSubmit(p) ==
    /\ p \in Callers /\ CanStart(p)
    /\ proc[p].op = "options" /\ proc[p].result = "form"
    /\ \E v \in IntervalInputs :
        LET rec == [NewCall(p, "options") EXCEPT !.name = "submit",
                                                 !.changes = ("update_interval" :> v)] IN
        IF ValidInterval(v)
        THEN EndStep(p, rec, "create_entry") /\ options' = rec.changes
        ELSE EndStep(p, [rec EXCEPT !.fail = "schema"], "form") /\ UNCHANGED options

InitOptions ==
    /\ last_state = SeedState
    /\ data = DataNone
    /\ proc = [p \in Procs |-> IF p \in {Poller, "t1"} THEN IdleProc ELSE AbsentProc]
    /\ calls_left = MaxOptionsCalls
    /\ options = NoOptions
    /\ hass = HassOf(data)

NextOptions ==
    \E p \in Procs :
        \/ StartPoll(p) \/ QOpen(p) \/ QHandshake(p) \/ QDrain(p) \/ QRead(p) \/ QWaitClosed(p)
        \/ OptionsInit(p) \/ OptionsSubmit(p)

SpecOptions == InitOptions /\ [][NextOptions]_vars

(***************************************************************************)
(* The fan entity (fan.py): its read mapping, its write mapping and        *)
(* _send_motor_command, which sends a full frame through send_raw_command. *)
(***************************************************************************)
\* const.py: motor speeds and SPEED_LIST
MOTOR_OFF == 0
MOTOR_SPEED_1 == 1
MOTOR_SPEED_2 == 2
MOTOR_SPEED_3 == 3
MOTOR_SPEED_4 == 4
SPEED_LIST == <<"off", "low", "medium", "high", "max">>

\* SilverlineHoodFan.is_on
FanIsOn(s) == Get(s, "M", 1) > 1

\* SilverlineHoodFan.percentage: int((speed_level / 4) * 100)
FanPercentage(s) ==
    LET motor_value == Get(s, "M", 1) IN
    IF motor_value <= 1 THEN 0 ELSE ((motor_value - 1) * 100) \div 4

\* SilverlineHoodFan.preset_mode ("" stands for None); SPEED_LIST[i] of Python is
\* the element i + 1 here
FanPresetMode(s) ==
    LET motor_value == Get(s, "M", 1)
        speed_index == motor_value - 1 IN
    IF motor_value <= 1 THEN ""
    ELSE IF speed_index <= Len(SPEED_LIST) - 1 THEN SPEED_LIST[speed_index + 1] ELSE ""

\* SilverlineHoodFan._get_motor_value_from_percentage
MotorFromPercentage(percentage) ==
    IF percentage <= 0 THEN MOTOR_OFF
    ELSE IF percentage <= 25 THEN MOTOR_SPEED_1
    ELSE IF percentage <= 50 THEN MOTOR_SPEED_2
    ELSE IF percentage <= 75 THEN MOTOR_SPEED_3
    ELSE MOTOR_SPEED_4

\* SilverlineHoodFan._get_motor_value_from_preset
MotorFromPreset(preset_mode) ==
    CASE preset_mode = "low" -> MOTOR_SPEED_1
      [] preset_mode = "medium" -> MOTOR_SPEED_2
      [] preset_mode = "high" -> MOTOR_SPEED_3
      [] preset_mode = "max" -> MOTOR_SPEED_4
      [] OTHER -> MOTOR_SPEED_1

\* the calls of the fan entity: the method and its arguments
FanRequest(method, args) == [method |-> method, args |-> args]
Percentages == {0, 1, 25, 26, 50, 51, 75, 76, 100}
PresetModes == {"low", "medium", "high", "max"}
FanRequests ==
    {FanRequest("turn_on", EmptyMap), FanRequest("turn_off", EmptyMap)}
        \cup {FanRequest("turn_on", ("percentage" :> v)) : v \in {0, 60}}
        \cup {FanRequest("turn_on", ("preset_mode" :> m)) : m \in {"high"}}
        \cup {FanRequest("set_percentage", ("percentage" :> v)) : v \in Percentages}
        \cup {FanRequest("set_preset_mode", ("preset_mode" :> m)) : m \in PresetModes}

\* the motor value async_turn_on, async_turn_off, async_set_percentage and
\* async_set_preset_mode hand to _send_motor_command (0 and None are falsy)
MotorValue(req) ==
    CASE req.method = "turn_off" -> MOTOR_OFF
      [] req.method = "set_preset_mode" -> MotorFromPreset(req.args["preset_mode"])
      [] req.method = "set_percentage" ->
            IF req.args["percentage"] = 0 THEN MOTOR_OFF
            ELSE MotorFromPercentage(req.args["percentage"])
      [] req.method = "turn_on" ->
            IF "preset_mode" \in DOMAIN req.args
            THEN MotorFromPreset(req.args["preset_mode"])
            ELSE IF "percentage" \in DOMAIN req.args /\ req.args["percentage"] # 0
                 THEN MotorFromPercentage(req.args["percentage"])
                 ELSE MOTOR_SPEED_1

\* _send_motor_command: command_data
MotorCommand(motor_value, s) ==
    ("M" :> motor_value) @@ ("L" :> Get(s, "L", 1)) @@ ("R" :> 45) @@ ("G" :> 255) @@
    ("B" :> 104) @@ ("CW" :> 255) @@ ("BRG" :> 132) @@ ("T" :> 0) @@ ("TM" :> 0) @@
    ("TS" :> 255) @@ ("A" :> 1)

\* a method of the fan entity up to the await of open_connection in send_raw_command:
\* command_str = json.dumps(command_data) + '\r'
StartFan(p) ==
    /\ CanCall(p)
    /\ \E req \in FanRequests :
        LET command_data == MotorCommand(MotorValue(req), current_state) IN
        Begin(p, [NewCall(p, "fan") EXCEPT !.pc = "c_open", !.name = req.method,
                                           !.args = req.args, !.changes = command_data,
                                           !.frame = JsonFrame(command_data)])
    /\ UNCHANGED <<last_state, data>>

InitFan ==
    /\ \E d \in {DataAlias} \cup {DataOwn(r) : r \in Replies} :
        /\ data = d
        /\ last_state = Merge(SeedState, d.val)
    /\ proc = [p \in Procs |-> IF p = "t1" THEN IdleProc ELSE AbsentProc]
    /\ calls_left = MaxFanCalls
    /\ options = NoOptions
    /\ hass = HassOf(data)

NextFan ==
    \E p \in Procs :
        \/ StartFan(p)
        \/ COpen(p) \/ CHandshake(p) \/ CDrain(p) \/ CRead(p) \/ CWaitClosed(p) \/ CSleep(p)
        \/ QOpen(p) \/ QHandshake(p) \/ QDrain(p) \/ QRead(p) \/ QWaitClosed(p)

SpecFan == InitFan /\ [][NextFan]_vars

(***************************************************************************)
(* The light entity (light.py): async_turn_on and async_turn_off refresh,  *)
(* build a full command from the refreshed data, hand it to                *)
(* send_smart_command and refresh again.                                   *)
(***************************************************************************)
LightRequest(method, args) == [method |-> method, args |-> args]
Rgbw(r, g, b, w) == ("r" :> r) @@ ("g" :> g) @@ ("b" :> b) @@ ("w" :> w)
LightRequests ==
    {LightRequest("turn_off", EmptyMap), LightRequest("turn_on", EmptyMap),
     LightRequest("turn_on", "brightness" :> 128),
     LightRequest("turn_on", Rgbw(10, 20, 30, 0)),
     LightRequest("turn_on", Rgbw(0, 0, 7, 200)),
     LightRequest("turn_on", Rgbw(0, 0, 0, 200)),
     LightRequest("turn_on", Rgbw(0, 0, 0, 90) @@ ("brightness" :> 255))}

\* async_turn_on / async_turn_off up to their first await that suspends:
\* _get_current_state awaits async_request_refresh
StartLight(p) ==
    /\ CanCall(p)
    /\ \E req \in LightRequests :
        \E next \in RequestRefresh([NewCall(p, "light") EXCEPT !.name = req.method,
                                                               !.args = req.args,
                                                               !.stage = "state"]) :
            Begin(p, next)
    /\ UNCHANGED <<last_state, data>>

InitLight ==
    /\ \E d \in {DataAlias} \cup {DataOwn(r) : r \in Replies} :
        /\ data = d
        /\ last_state = Merge(SeedState, d.val)
    /\ proc = [p \in Procs |-> IF p = "t1" THEN IdleProc ELSE AbsentProc]
    /\ calls_left = MaxLightCalls
    /\ options = NoOptions
    /\ hass = HassOf(data)

NextLight ==
    \E p \in Procs :
        \/ StartLight(p)
        \/ COpen(p) \/ CHandshake(p) \/ CDrain(p) \/ CRead(p) \/ CWaitClosed(p) \/ CSleep(p)
        \/ QOpen(p) \/ QHandshake(p) \/ QDrain(p) \/ QRead(p) \/ QWaitClosed(p)

SpecLight == InitLight /\ [][NextLight]_vars

(***************************************************************************)
(* The brightness conversions of the light entity (light.py): the          *)
(* brightness property reads BRG from the coordinator's data and converts  *)
(* it to the 0..255 scale; async_turn_on converts the brightness it is     *)
(* given to the device scale.                                              *)
(***************************************************************************)
MaxBrightnessCalls == 2

\* SilverlineHoodLight._convert_brightness_from_device
BrightnessFromDevice(device_brightness) ==
    IF device_brightness <= 161 THEN 1
    ELSE ((device_brightness - 161) * 255) \div (170 - 161)

\* SilverlineHoodLight.brightness on the coordinator's data d
LightBrightness(d) ==
    IF DOMAIN d = {} THEN 165 ELSE BrightnessFromDevice(Get(d, "BRG", 165))

\* values of BRG the store can hold: the seed's 132, the device's range 161..170 and
\* what a device or a raw command puts there below and above that range
DeviceBrightnesses == {0, 132, 255} \cup (160..172)

\* the 0..255 scale of the light's brightness
HaBrightnesses == 0..255

\* a conversion returns at once: op names it, args holds what went in, changes what
\* came out
Converted(p, op, args, out) ==
    [NewCall(p, op) EXCEPT !.pc = "done", !.result = "ok", !.args = args, !.changes = out]

\* the brightness property is read
ReadBrightness(p) ==
    /\ CanCall(p)
    /\ LET d == DataValue(data, last_state) IN
       Begin(p, Converted(p, "brightness", ("BRG" :> Get(d, "BRG", 165)),
                          ("brightness" :> LightBrightness(d))))
    /\ UNCHANGED <<last_state, data>>

\* async_turn_on(brightness = b): the BRG of the command
ConvertToDevice(p) ==
    /\ CanCall(p)
    /\ \E b \in HaBrightnesses :
        Begin(p, Converted(p, "to_device", ("brightness" :> b),
                           ("BRG" :> BrightnessToDevice(b))))
    /\ UNCHANGED <<last_state, data>>

\* async_turn_on with the brightness the property has just returned
WriteBack(p) ==
    /\ CanCall(p)
    /\ proc[p].op = "brightness" /\ proc[p].pc = "done"
    /\ LET b == proc[p].changes["brightness"] IN
       Begin(p, Converted(p, "write_back", ("brightness" :> b),
                          ("BRG" :> BrightnessToDevice(b))))
    /\ UNCHANGED <<last_state, data>>

InitBrightness ==
    /\ \E brg \in DeviceBrightnesses :
        /\ last_state = Merge(SeedState, "BRG" :> brg)
        /\ data \in {DataAlias, DataOwn("BRG" :> brg), DataOwn("M" :> 1)}
    /\ proc = [p \in Procs |-> IF p = "t1" THEN IdleProc ELSE AbsentProc]
    /\ calls_left = MaxBrightnessCalls
    /\ options = NoOptions
    /\ hass = HassOf(data)

NextBrightness ==
    \E p \in Procs : ReadBrightness(p) \/ ConvertToDevice(p) \/ WriteBack(p)

SpecBrightness == InitBrightness /\ [][NextBrightness]_vars

(***************************************************************************)
(* The life of the config entries (__init__.py): async_setup_entry and     *)
(* async_unload_entry, one task per entry.  Home Assistant sets up an      *)
(* entry that is not loaded and unloads an entry that is loaded; an entry  *)
(* whose unload has failed is left alone.  The first refresh never fails   *)
(* the setup: _async_update_data catches every exception.                  *)
(***************************************************************************)
MaxEntryCalls == 4

\* the config entry that task p sets up and unloads
EntryOf(p) == IF p = "t1" THEN "e1" ELSE "e2"

\* the entry of task p is loaded: its last call is a setup that has returned True
EntryLoaded(p) ==
    proc[p].op = "setup" /\ proc[p].pc = "done" /\ proc[p].result = "True"

\* the entry of task p is not loaded: never set up, or unloaded with success
EntryNotLoaded(p) ==
    \/ proc[p].pc = "idle"
    \/ proc[p].op = "unload" /\ proc[p].pc = "done" /\ proc[p].result = "True"

\* async_setup_entry up to the await of the first refresh: the coordinator is made
SetupEntry(p) ==
    /\ p \in Callers /\ calls_left > 0 /\ EntryNotLoaded(p)
    /\ Begin(p, [NewCall(p, "setup") EXCEPT !.pc = "s_refresh", !.name = EntryOf(p)])
    /\ UNCHANGED <<last_state, data>>

\* the first refresh has returned: the coordinator is stored in hass.data[DOMAIN], then
\* async_forward_entry_setups is awaited
SetupStore(p) ==
    /\ proc[p].pc = "s_refresh"
    /\ proc' = [proc EXCEPT ![p].pc = "s_forward"]
    /\ hass' = [hass EXCEPT !.data = @ \cup {proc[p].name}]
    /\ UNCHANGED <<last_state, data, calls_left, options>>

\* the platforms are set up: _register_services registers the services, and
\* async_setup_entry returns True
SetupRegister(p) ==
    /\ proc[p].pc = "s_forward"
    /\ proc' = [proc EXCEPT ![p] = Finish(proc[p], "True")]
    /\ hass' = [hass EXCEPT !.services = @ \cup Services]
    /\ UNCHANGED <<last_state, data, calls_left, options>>

\* async_unload_entry up to the await of async_unload_platforms: every service of
\* services_to_remove that is registered is removed
UnloadEntry(p) ==
    /\ p \in Callers /\ calls_left > 0 /\ EntryLoaded(p)
    /\ proc' = [q \in Procs |->
                   IF q = p THEN [NewCall(p, "unload") EXCEPT !.pc = "u_platforms",
                                                              !.name = EntryOf(p)]
                   ELSE [proc[q] EXCEPT !.latest = FALSE]]
    /\ calls_left' = calls_left - 1
    /\ hass' = [hass EXCEPT !.services = @ \ Services]
    /\ UNCHANGED <<last_state, data, options>>

\* async_unload_platforms has returned unload_ok: the coordinator is popped from
\* hass.data[DOMAIN] if it is true, and unload_ok is returned
UnloadPlatforms(p) ==
    /\ proc[p].pc = "u_platforms"
    /\ \E unload_ok \in BOOLEAN :
        /\ proc' = [proc EXCEPT ![p] = Finish(proc[p], IF unload_ok THEN "True" ELSE "False")]
        /\ hass' = IF unload_ok THEN [hass EXCEPT !.data = @ \ {proc[p].name}] ELSE hass
    /\ UNCHANGED <<last_state, data, calls_left, options>>

InitEntries ==
    /\ last_state = SeedState
    /\ data = DataNone
    /\ proc = [p \in Procs |-> IF p \in Callers THEN IdleProc ELSE AbsentProc]
    /\ calls_left = MaxEntryCalls
    /\ options = NoOptions
    /\ hass = NoHass

NextEntries ==
    \E p \in Procs :
        \/ SetupEntry(p) \/ SetupStore(p) \/ SetupRegister(p)
        \/ UnloadEntry(p) \/ UnloadPlatforms(p)

SpecEntries == InitEntries /\ [][NextEntries]_vars

(***************************************************************************)
(* The claims.  Returned, SmartCall, NotCancelled and Alone describe a     *)
(* task's call; they are read by the formulas below.                       *)
(***************************************************************************)
Returned(rec) == rec.pc = "done"
NotCancelled(rec) == rec.result # "cancelled"

\* the call runs send_smart_command (directly or through send_exact_command)
SmartCall(rec) == rec.op = "smart" \/ (rec.op = "exact" /\ rec.name \in CommandNames)

\* the call sends one command frame of its own
CommandCall(rec) == SmartCall(rec) \/ rec.op \in {"minimal", "raw"}

\* no other task was inside a call at any time since p's call started
Alone(p) == proc[p].during = {} /\ proc[p].latest

Undecodable == {"nonutf8", "badjson", "nonobj"}

\* C1: whenever an exchange of the coordinator has ended (returned, raised or been
\* cancelled), the connection it opened is closed.
C1_ConnectionClosedOnEveryExit == \A p \in Procs : ~proc[p].leaked

\* C2: at most one exchange of the coordinator has its connection open at any time.
C2_OneExchangeInFlight == Cardinality({p \in Procs : proc[p].conn}) <= 1

\* C3: when send_smart_command(d2) starts while send_smart_command(d1) is running (and
\* d1 ends up merged locally), the frame of the second call carries d1's values for the
\* fields d2 does not set, and once both have returned without a refresh the store is
\* the one of d1 followed by d2.
C3_ConcurrentDeltasInCallOrder ==
    \A p, q \in Procs :
        (/\ p # q /\ proc[q].latest /\ p \in proc[q].during
         /\ proc[p].op = "smart" /\ proc[q].op = "smart"
         /\ proc[p].cresp.kind = "timeout")
        => LET d1 == proc[p].changes
               d2 == proc[q].changes IN
           /\ proc[q].sent.json
                => \A k \in (DOMAIN d1) \ (DOMAIN d2) : proc[q].sent.body[k] = d1[k]
           /\ (/\ Returned(proc[p]) /\ Returned(proc[q])
               /\ proc[p].result = "True" /\ proc[q].result = "True"
               /\ proc[q].cresp.kind = "timeout"
               /\ proc[p].nOpen = 1 /\ proc[q].nOpen = 1)
                => last_state = Merge(Merge(last_state, d1), d2)

\* C4: a send_smart_command whose frame was written and whose response read timed out
\* returns True, and afterwards the store holds the value of changes for every key of
\* changes (no other task having run meanwhile).
C4_TimeoutReturnsTrueAndMerges ==
    \A p \in Procs :
        (/\ Returned(proc[p]) /\ NotCancelled(proc[p]) /\ SmartCall(proc[p])
         /\ proc[p].cresp.kind = "timeout" /\ proc[p].fail = "none" /\ Alone(p))
        => /\ proc[p].result = "True"
           /\ \A k \in DOMAIN (proc[p].changes) : last_state[k] = proc[p].changes[k]

\* C5: the step of send_smart_command that reads the response merges into the store
\* the decoded reply when the reply is a JSON object and the caller's changes in every
\* other case (an empty response included).
C5_MergesReplyOrChanges ==
    [][\A p \in Procs :
        (/\ proc[p].pc = "c_read" /\ SmartCall(proc[p])
         /\ proc'[p].pc # "c_read" /\ proc'[p].fail # "cancel")
        => last_state' = Merge(last_state,
                               IF proc'[p].cresp.kind = "obj"
                               THEN proc'[p].cresp.obj
                               ELSE proc[p].changes)]_vars

\* C6: a response that is present but is no decodable JSON object is not fatal:
\* send_smart_command goes on to its close (and so to returning True) with the local
\* changes merged, and a status query keeps the store and ends without an exception
\* reaching its caller.
C6_UndecodableResponseNotFatal ==
    [][\A p \in Procs :
        /\ (/\ proc[p].pc = "c_read" /\ SmartCall(proc[p])
            /\ proc'[p].pc # "c_read" /\ proc'[p].fail # "cancel"
            /\ proc'[p].cresp.kind \in Undecodable)
           => /\ proc'[p].pc = "c_wclose"
              /\ last_state' = Merge(last_state, proc[p].changes)
        /\ (/\ proc[p].pc = "q_wclose" /\ proc[p].resp.kind \in Undecodable
            /\ proc'[p].pc = "done" /\ proc'[p].qfail \in {"none", "decode"})
           => /\ last_state' = last_state
              /\ proc'[p].result \in {"ok", "True"}]_vars

\* C7: when opening the connection or writing the frame fails, the dispatcher call
\* returns False; for send_exact_command("status_query") the exchange is the refresh.
C7_NetworkFailureReturnsFalse ==
    \A p \in Procs :
        (p \in Callers /\ Returned(proc[p]) /\ NotCancelled(proc[p]))
        => /\ proc[p].fail \in {"open", "write"} => proc[p].result = "False"
           /\ (/\ proc[p].op = "exact" /\ proc[p].name = "status_query"
               /\ proc[p].qfail \in {"open", "write"})
              => proc[p].result = "False"

\* C8: a dispatcher call that sent its command and returned True has opened exactly
\* one connection and written exactly one frame.
C8_ExactlyOneExchangePerCall ==
    \A p \in Procs :
        (Returned(proc[p]) /\ CommandCall(proc[p]) /\ proc[p].result = "True")
        => proc[p].nOpen = 1 /\ proc[p].nWrite = 1

\* C9: when a status query's reply decodes to a JSON object r, the snapshot published
\* by the query is the previous store overlaid with r.
C9_QueryPublishesMergedSnapshot ==
    [][\A p \in Procs :
        (/\ proc[p].pc = "q_wclose" /\ proc[p].resp.kind = "obj"
         /\ proc'[p].pc = "done" /\ proc'[p].qfail = "none")
        => CurrentStateOf(data', last_state') = Merge(last_state, proc[p].resp.obj)]_vars

\* C10: a status query whose response read returns empty bytes or times out reports
\* success and leaves current_state as it was.
C10_NoResponseKeepsSnapshot ==
    [][\A p \in Procs :
        (\/ /\ proc[p].pc = "q_read" /\ proc'[p].pc = "done" /\ proc'[p].qfail = "read"
         \/ /\ proc[p].pc = "q_wclose" /\ proc[p].resp.kind = "empty"
            /\ proc'[p].pc = "done" /\ proc'[p].qfail = "none")
        => /\ proc'[p].result \in {"ok", "True"}
           /\ CurrentStateOf(data', last_state') = current_state]_vars

\* the partial mapping the step of task p hands to _last_state.update, if any: the decoded
\* command reply or the caller's changes (send_smart_command), or the decoded status reply
UpdateOf(p) ==
    IF proc[p].pc = "c_read" /\ proc'[p].pc = "c_wclose" /\ IsSmart(proc[p])
    THEN (IF proc'[p].cresp.kind = "obj" THEN proc'[p].cresp.obj
          ELSE IF proc'[p].cresp.kind = "empty" THEN EmptyMap ELSE proc[p].changes)
    ELSE IF proc[p].pc = "q_wclose" /\ proc'[p].qfail = "none"
         THEN proc[p].resp.obj
         ELSE EmptyMap

\* C11: every step of a task changes the store only on the keys of the partial mapping it
\* merges: every other key is still present afterwards with the value it had.
C11_MergeChangesOnlyKeysOfUpdate ==
    [][\A p \in Procs :
        proc'[p].pc # proc[p].pc
        => \A k \in (DOMAIN last_state) \ (DOMAIN UpdateOf(p)) :
               k \in DOMAIN last_state' /\ last_state'[k] = last_state[k]]_vars

\* C11 witness: a command reply {"W": 1} and a status reply or local delta have been merged:
\* the store holds the new key, the changed field and the seeded values of the others
C11_Witness ==
    /\ "W" \in DOMAIN last_state /\ last_state["W"] = 1
    /\ last_state["M"] = 2
    /\ \A k \in (DOMAIN SeedState) \ {"M"} : last_state[k] = SeedState[k]

\* the state the scenario "light on with colour" starts from
ScenarioStart(s) ==
    /\ {"L", "R", "G", "B", "CW", "BRG"} \subseteq DOMAIN s
    /\ s["L"] = 1 /\ s["R"] = 45 /\ s["G"] = 255 /\ s["B"] = 104
    /\ s["CW"] = 110 /\ s["BRG"] = 132

\* the state the scenario ends in
ScenarioEnd(s) ==
    /\ {"L", "R", "G", "B", "CW", "BRG"} \subseteq DOMAIN s
    /\ s["L"] = 2 /\ s["R"] = 10 /\ s["G"] = 20 /\ s["B"] = 30
    /\ s["CW"] = 110 /\ s["BRG"] = 132

\* C12: send_smart_command({L:2,R:10,G:20,B:30}) called, with no other task running, on
\* a snapshot with L=1, R=45, G=255, B=104, CW=110, BRG=132: the frame it builds is a JSON
\* object ended by a carriage return that holds the delta, CW=110, BRG=132 and every other
\* retained field of the snapshot; and when its exchange has completed without a reply
\* of the device overriding the delta, the snapshot holds the delta with CW and BRG
\* unchanged.
C12_LightOnWithColourScenario ==
    [][\A p \in Procs :
        /\ (/\ proc[p].pc \in {"idle", "done"} /\ proc'[p].pc = "c_open"
            /\ proc'[p].op = "smart" /\ proc'[p].changes = LightColour
            /\ ScenarioStart(current_state))
           => /\ proc'[p].frame.json /\ proc'[p].frame.cr
              /\ ScenarioEnd(proc'[p].frame.body)
              /\ \A k \in ((DOMAIN current_state) \cap CoreKeys) \ (DOMAIN LightColour) :
                     proc'[p].frame.body[k] = current_state[k]
        /\ (/\ proc[p].pc = "c_read" /\ proc'[p].pc = "c_wclose"
            /\ proc[p].op = "smart" /\ proc[p].changes = LightColour
            /\ proc'[p].cresp.kind # "obj"
            /\ Alone(p) /\ ScenarioStart(current_state))
           => ScenarioEnd(CurrentStateOf(data', last_state'))]_vars

\* the device and the refresh behaved in the call rec as in the call before it
SameBehaviour(rec) ==
    /\ rec.cresp = rec.prev.cresp /\ rec.resp = rec.prev.resp
    /\ rec.fail = rec.prev.fail /\ rec.qfail = rec.prev.qfail
    /\ rec.nOpen = rec.prev.nOpen /\ rec.nWrite = rec.prev.nWrite
    /\ rec.result = rec.prev.result

\* C13: when send_exact_command(name) has returned for the second time in a row, with
\* the device and the refresh behaving as in the first call, the snapshot equals the
\* snapshot the first call left.
C13_SameCommandTwiceIsStable ==
    \A p \in Procs :
        (/\ Returned(proc[p]) /\ proc[p].op = "exact" /\ proc[p].prev.op = "exact"
         /\ proc[p].prev.name = proc[p].name /\ SameBehaviour(proc[p]))
        => current_state = proc[p].prev.snap

\* C13 witness: light_on sent twice, both exchanges timing out on the response and both
\* refreshes merging the reply {"W": 1}
C13_Witness ==
    /\ Returned(proc["t1"]) /\ proc["t1"].name = "light_on"
    /\ proc["t1"].prev.name = "light_on" /\ SameBehaviour(proc["t1"])
    /\ proc["t1"].cresp.kind = "timeout" /\ proc["t1"].result = "True"
    /\ proc["t1"].resp = Response("obj", "W" :> 1)
    /\ last_state["L"] = 2

\* C14: while another task is inside a call, the step of a task that merges a mapping
\* applies it to the store as the other task's merges left it: the store afterwards is
\* the store before overlaid with that mapping, so no merge of the other task is lost or
\* reverted and the last merge wins per field.
C14_ConcurrentMergesNotLost ==
    [][\A p \in Procs :
        (proc'[p].pc # proc[p].pc /\ \E q \in Procs \ {p} : InCall(proc[q]))
        => last_state' = Merge(last_state, UpdateOf(p))]_vars

\* C14 witness: a poll and send_smart_command({"M": 2}) overlapped; the command merged
\* its changes on a response timeout and, before it went on, the poll merged the reply
\* {"M": 1}: the last merge wins
C14_Witness ==
    /\ proc["t1"].during = {Poller} /\ proc["t1"].pc = "c_wclose"
    /\ proc["t1"].cresp.kind = "timeout" /\ proc["t1"].changes = ("M" :> 2)
    /\ Returned(proc[Poller]) /\ proc[Poller].qfail = "none" /\ proc[Poller].nWrite = 1
    /\ last_state["M"] = 1

\* C15: whatever the handshake read returns (the token, other bytes, or a timeout), the
\* step that follows it writes the exchange's frame.
C15_HandshakeNeverPreventsWrite ==
    [][\A p \in Procs :
        (/\ proc[p].pc \in {"c_hs", "q_hs"} /\ proc'[p].pc # proc[p].pc
         /\ proc'[p].result # "cancelled")
        => /\ proc'[p].nWrite = proc[p].nWrite + 1
           /\ proc'[p].pc \in {"c_drain", "q_drain"}]_vars

\* C16: a poll whose exchange fails (connect error, write error or read timeout) ends
\* without an exception, serves afterwards the snapshot that was served before it, has
\* opened at most one connection (no retry within the tick) and leaves the poller able
\* to poll again.
C16_PollerToleratesFailure ==
    [][\A p \in Procs :
        (/\ proc[p].op = "poll" /\ InCall(proc[p]) /\ proc'[p].pc = "done"
         /\ proc'[p].qfail \in {"open", "write", "read"})
        => /\ proc'[p].result = "ok"
           /\ CurrentStateOf(data', last_state') = current_state
           /\ proc'[p].nOpen <= 1
           /\ (calls_left' > 0 => proc'[p].pc \in {"idle", "done"})]_vars

\* C17: every frame written to the device is a JSON object followed by one carriage
\* return, and the frame of a status query (the poller's, a refresh's, the config flow's
\* connection test) is the object {"A": 4} followed by one carriage return.
C17_EveryFrameIsJsonObjectAndCR ==
    \A p \in Procs :
        /\ proc[p].sent # NoFrame => proc[p].sent.json /\ proc[p].sent.cr
        /\ proc[p].qsent # NoFrame => proc[p].qsent = StatusCmd
        /\ (proc[p].op = "flow" /\ proc[p].sent # NoFrame) => proc[p].sent = StatusCmd

\* the delta a symbolic name stands for: light_on L=2, light_off L=1, fan_off M=1,
\* fan_speed_k M=k+1
FanSpeedNames == <<"fan_speed_1", "fan_speed_2", "fan_speed_3", "fan_speed_4">>

ExpectedDelta(n) ==
    CASE n = "light_on" -> ("L" :> 2)
      [] n = "light_off" -> ("L" :> 1)
      [] n = "fan_off" -> ("M" :> 1)
      [] OTHER -> ("M" :> ((CHOOSE k \in 1..4 : FanSpeedNames[k] = n) + 1))

\* C18: send_exact_command(n) for a command name n starts as send_smart_command on the
\* delta of n does (same changes, same frame built from the snapshot, nothing opened or
\* changed yet), writes that frame, merges on the response what send_smart_command merges,
\* and returns True exactly when nothing failed; for a name outside the table it returns
\* False at once, with no connection opened and the store and the data unchanged.
C18_ExactCommandIsSmartCommandOnDelta ==
    [][\A p \in Procs :
        /\ (/\ proc[p].pc \in {"idle", "done"} /\ proc'[p].pc # proc[p].pc
            /\ proc'[p].op = "exact" /\ proc'[p].name \in CommandNames)
           => /\ proc'[p] = [SmartPrepare(NewCall(p, "smart"), ExpectedDelta(proc'[p].name))
                                EXCEPT !.op = "exact", !.name = proc'[p].name]
              /\ last_state' = last_state /\ data' = data
        /\ (/\ proc[p].pc = "c_hs" /\ proc'[p].pc = "c_drain" /\ proc[p].op = "exact")
           => proc'[p].sent =
                  JsonFrame(CleanState(Merge(proc[p].prev.snap, ExpectedDelta(proc[p].name))))
        /\ (/\ proc[p].pc = "c_read" /\ proc'[p].pc # "c_read" /\ proc[p].op = "exact")
           => LET m == SmartMerge(proc'[p].cresp, ExpectedDelta(proc[p].name)) IN
              /\ last_state' = IF m.act = "merge" THEN Merge(last_state, m.with)
                                ELSE last_state
              /\ m.act = "raise" <=> proc'[p].result = "False"
        /\ (/\ proc'[p].pc = "done" /\ proc[p].pc # "done" /\ proc'[p].op = "exact"
            /\ proc'[p].name \in CommandNames)
           => (proc'[p].result = "True" <=> proc'[p].fail = "none")
        /\ (/\ proc[p].pc \in {"idle", "done"} /\ proc'[p].op = "exact"
            /\ proc'[p].name \notin CommandNames \cup {"status_query"}
            /\ proc'[p] # proc[p])
           => /\ proc'[p].pc = "done" /\ proc'[p].result = "False"
              /\ proc'[p].nOpen = 0 /\ proc'[p].nWrite = 0
              /\ last_state' = last_state /\ data' = data]_vars

\* C18 witness: an unknown name was refused, then fan_speed_4 was sent, timed out on
\* the response and returned True with M = 5 merged
C18_Witness ==
    /\ Returned(proc["t1"]) /\ proc["t1"].op = "exact" /\ proc["t1"].name = "fan_speed_4"
    /\ proc["t1"].cresp.kind = "timeout" /\ proc["t1"].result = "True"
    /\ proc["t1"].nOpen = 1 /\ last_state["M"] = 5
    /\ proc["t1"].prev.name = "bogus" /\ proc["t1"].prev.result = "False"
    /\ proc["t1"].prev.nOpen = 0

\* C19: the mapping published as the coordinator's data (the object current_state hands
\* out when it is not empty) keeps its field values for as long as it is the published
\* object: a merge into the store does not change it.
C19_PublishedSnapshotIsImmutable ==
    [][(data' = data /\ data.tag # "none")
        => DataValue(data', last_state') = DataValue(data, last_state)]_vars

\* the keys the constructor seeds
SeededKeys ==
    {"M", "L", "R", "G", "B", "CW", "BRG", "T", "TM", "TS", "A", "LM", "CWD", "RGBD"}

\* C20: in every reachable state the store holds every seeded key, no step removes a key
\* from the store (keys are only added or overwritten), and before the first refresh has
\* published anything the snapshot is the seeded store.
C20_StoreNeverLosesAField ==
    /\ [](/\ SeededKeys \subseteq DOMAIN last_state
          /\ data.tag = "none" => SeededKeys \subseteq DOMAIN current_state)
    /\ [][DOMAIN last_state \subseteq DOMAIN last_state']_vars

\* C20 witness: after a poll that timed out on its read and a command that failed, a
\* merged reply has added the key W to the seeded keys
C20_Witness ==
    /\ Returned(proc[Poller]) /\ proc[Poller].qfail = "read"
    /\ Returned(proc["t1"]) /\ proc["t1"].result = "False"
    /\ DOMAIN last_state = SeededKeys \cup {"W"}

\* C21: decoding the frame the client encodes from a well-formed device state s (the
\* seeded extension fields LM, CWD, RGBD included) yields a mapping equal to s.
C21_DecodeOfEncodeIsIdentity ==
    \A p \in Procs :
        (Returned(proc[p]) /\ proc[p].op = "codec") => proc[p].cresp.obj = last_state

\* C22: the period of the poller's ticks equals the update_interval stored by the options
\* flow, which is within [MIN_UPDATE_INTERVAL, MAX_UPDATE_INTERVAL], and equals
\* DEFAULT_UPDATE_INTERVAL when no option is stored; a tick makes one status query.
C22_PollerPeriodIsTheOption ==
    /\ ValidInterval(OptionInterval(options))
    /\ update_interval = OptionInterval(options)
    /\ \A p \in Procs : proc[p].op = "poll" => proc[p].nOpen <= 1 /\ proc[p].nWrite <= 1

\* DataUpdateCoordinator.last_update_success after the refresh run by the call rec: the
\* base class clears it when _async_update_data raises, and _async_update_data returns
\* (the store) for every Exception of the status query
last_update_success(rec) == rec.result \in {"ok", "True"}

\* what the coordinator exposes to the entity layer after a refresh: the published data,
\* the store behind current_state and the success flag (it keeps no timestamp or count)
Exposed(d, ls, rec) == [data |-> d, store |-> ls, success |-> last_update_success(rec)]

\* the steps at which the exchange of a status query can fail
QueryFailures == {"open", "handshake", "write", "read", "decode", "close"}

\* C23: after a poll whose exchange failed, what the coordinator exposes differs from what
\* it exposes after the same poll succeeding with no new data (an empty response).
C23_FailedPollIsObservable ==
    [][\A p \in Procs :
        (/\ proc[p].op = "poll" /\ InCall(proc[p]) /\ proc'[p].pc = "done"
         /\ proc'[p].qfail \in QueryFailures)
        => Exposed(data', last_state', proc'[p]) # Exposed(DataAlias, last_state, QueryDone(proc[p]))]_vars

\* the awaits of an exchange, of a command (c) and of a status query (q)
AtOpen == {"c_open", "q_open"}
AtHandshake == {"c_hs", "q_hs"}
AtDrain == {"c_drain", "q_drain"}
AtRead == {"c_read", "q_read"}
AtWaitClosed == {"c_wclose", "q_wclose"}

C25_FailedCommandLeavesStore ==
    \A p \in Procs :
        (/\ Returned(proc[p]) /\ proc[p].op = "smart" /\ proc[p].result = "False"
         /\ data.tag = "alias")
        => last_state = proc[p].prev.snap

\* the eleven core codes
ElevenCodes == {"M", "L", "R", "G", "B", "CW", "BRG", "T", "TM", "TS", "A"}

Applied(rec) == Merge(current_state, rec.changes)

\* the bucket 25, 50, 75 or 100 that holds a percentage of 1..100
Bucket(percentage) == 25 * ((percentage + 24) \div 25)

\* C27: with the command of a fan method applied to the state, the fan's read mapping
\* gives back what was asked: on, the requested preset, the bucket of the requested
\* percentage; off and 0 after turn_off or set_percentage(0); a percentage in 0..100.
C27_FanWriteAndReadAgree ==
    \A p \in Procs :
        proc[p].op = "fan"
        => LET s == Applied(proc[p])
               method == proc[p].name
               args == proc[p].args IN
           /\ (method = "turn_on" /\ args = EmptyMap) => FanIsOn(s)
           /\ (method = "set_percentage" /\ args["percentage"] >= 1)
                  => FanIsOn(s) /\ FanPercentage(s) = Bucket(args["percentage"])
           /\ method = "set_preset_mode"
                  => FanIsOn(s) /\ FanPresetMode(s) = args["preset_mode"]
           /\ (method = "turn_off" \/ (method = "set_percentage" /\ args["percentage"] = 0))
                  => ~FanIsOn(s) /\ FanPercentage(s) = 0
           /\ FanPercentage(s) \in 0..100

\* C28: when a fan method has ended and its send_raw_command had returned True, the
\* method has not raised and current_state holds the motor value that was sent; when
\* send_raw_command had returned False, current_state is what it was before the call.
C28_FanCommandReflectedInState ==
    \A p \in Procs :
        (Returned(proc[p]) /\ proc[p].op = "fan")
        => IF proc[p].fail = "none"
           THEN /\ proc[p].result # "AttributeError"
                /\ Get(current_state, "M", 1) = proc[p].changes["M"]
           ELSE current_state = proc[p].prev.snap

\* C29: in the frame a fan method writes, every field other than M carries the value it
\* has in the snapshot the method started from.
C29_FanFrameKeepsOtherFields ==
    \A p \in Procs :
        (proc[p].op = "fan" /\ proc[p].sent # NoFrame)
        => \A k \in (ElevenCodes \ {"M"}) \cap DOMAIN proc[p].prev.snap :
               proc[p].sent.body[k] = proc[p].prev.snap[k]

\* C30: the command a method of the light entity hands to send_smart_command, cur being
\* the refreshed current state: turn-on with a colour whose r, g or b is non-zero has L = 3,
\* R, G, B as given and CW = 0; with r = g = b = 0 it has L = 2, CW = w and R = G = B = 0;
\* with no colour it has L = 2 when the current L is 1 and the current L otherwise;
\* turn-off has L = 1 and every other field equal to the field of the current state.
C30_LightCommandFollowsRequest ==
    [][\A p \in Procs :
        (proc'[p].op = "light" /\ proc'[p].pc = "c_open" /\ proc[p].pc # "c_open")
        => LET cmd == proc'[p].changes
               args == proc'[p].args
               method == proc'[p].name
               cur == DataValue(data', last_state') IN
           /\ (method = "turn_on" /\ "r" \in DOMAIN args
                /\ (args["r"] > 0 \/ args["g"] > 0 \/ args["b"] > 0))
              => /\ cmd["L"] = 3 /\ cmd["CW"] = 0
                 /\ cmd["R"] = args["r"] /\ cmd["G"] = args["g"] /\ cmd["B"] = args["b"]
           /\ (method = "turn_on" /\ "r" \in DOMAIN args
                /\ args["r"] = 0 /\ args["g"] = 0 /\ args["b"] = 0)
              => /\ cmd["L"] = 2 /\ cmd["CW"] = args["w"]
                 /\ cmd["R"] = 0 /\ cmd["G"] = 0 /\ cmd["B"] = 0
           /\ (method = "turn_on" /\ "r" \notin DOMAIN args /\ "L" \in DOMAIN cur)
              => cmd["L"] = IF cur["L"] = 1 THEN 2 ELSE cur["L"]
           /\ method = "turn_off"
              => /\ cmd["L"] = 1
                 /\ \A k \in ((DOMAIN cmd) \cap (DOMAIN cur)) \ {"L"} : cmd[k] = cur[k]]_vars

\* C31: _convert_brightness_to_device returns a value in 161..170 for every brightness in
\* 0..255, and the brightness property (_convert_brightness_from_device on the BRG of the
\* coordinator's data) returns a value in 0..255 for every BRG the store can hold.
C31_BrightnessConversionsInRange ==
    \A p \in Procs :
        /\ (Returned(proc[p]) /\ proc[p].op = "to_device")
           => proc[p].changes["BRG"] \in 161..170
        /\ (Returned(proc[p]) /\ proc[p].op = "brightness")
           => proc[p].changes["brightness"] \in 0..255

\* C32: a BRG in 161..170, read through the brightness property and written back through
\* async_turn_on unchanged, gives the command the BRG that was read.
C32_BrightnessRoundTrip ==
    \A p \in Procs :
        (/\ Returned(proc[p]) /\ proc[p].op = "write_back"
         /\ proc[p].prev.op = "brightness"
         /\ "BRG" \in DOMAIN DataValue(data, last_state)
         /\ DataValue(data, last_state)["BRG"] \in 161..170)
        => proc[p].changes["BRG"] = DataValue(data, last_state)["BRG"]

\* C33: validate_input raises CannotConnect when the connection cannot be opened, when
\* the response read times out and on any other transport error (the write, the close);
\* with the transport in order it returns the title whatever the device has sent: a JSON
\* response, nothing, or bytes that are not valid JSON; and async_step_user creates the
\* entry only when validate_input has returned.
C33_ValidationOutcome ==
    \A p \in Procs :
        (Returned(proc[p]) /\ proc[p].op = "flow" /\ proc[p].stage # "form")
        => /\ proc[p].fail \in {"open", "write", "read", "close"}
              => proc[p].result = "CannotConnect"
           /\ (/\ proc[p].fail \notin {"open", "write", "read", "close"}
               /\ proc[p].cresp.kind \in {"obj", "nonobj", "empty", "badjson", "nonutf8"})
              => proc[p].result = "title"
           /\ proc[p].stage = "create_entry" => proc[p].result = "title"

\* C34: whenever no setup and no unload is under way, the services of the integration
\* are registered exactly when hass.data holds the coordinator of at least one entry.
C34_ServicesExactlyWhileLoaded ==
    (\A p \in Procs : ~InCall(proc[p]))
    => (hass.services = Services <=> hass.data # {})

====
